---- MODULE Spec2Model ----
(***************************************************************************)
(* Model of the adapter shim (adapter_shim/app.py) and of its two runners  *)
(* (mock_runner.py, codex_runner.py) with the envelope factory (events.py).*)
(* The asyncio event loop is cooperative: every action below is the code   *)
(* that runs between two suspension points of one coroutine.               *)
(***************************************************************************)
EXTENDS Integers, Sequences, FiniteSets, TLC

(* ---- bounds of the model ---- *)
MaxRunners == 2
MaxStops == 2
MaxLines == 1
MaxChannels == 2
MaxNotes == 3
MaxGoals == 2
MaxBacklog == 2

(* ---- program constants ---- *)
MAX_EVENT_BUFFER == 1000
StatusTextLimit == 500
StatusTextKeep == 497
PromptLimit == 8000
PromptKeep == 7997

VARIABLES
  mock,          \* AppState.mock
  cur,           \* AppState.runner: 0 is None, else the runner's index
  nrun,          \* number of runners constructed so far
  R,             \* the runner objects, by index
  event_buffer,  \* AppState.event_buffer
  sent,          \* the /events connections, by channel: the envelope each sent
                 \* last (last), the envelope it popped and is sending (hold),
                 \* and what the artifact sink did with its last upload (sink)
  H,             \* the /kill and /pause handlers, by request number
  nstop,         \* number of /kill and /pause requests accepted so far
  resp,          \* the response sent by the step that led to this state, if any
  mapper,        \* a CodexEventMapper object
  call           \* the last call of map_event or brief_to_prompt: its argument
                 \* and what it returned

vars == <<mock, cur, nrun, R, event_buffer, sent, H, nstop, resp, mapper, call>>

Runners == 1..MaxRunners
Stops == 1..MaxStops
Channels == 1..MaxChannels

(* ---- domain events (models.py), reduced to type, discriminating tag, id, ---- *)
(* and the uri of an artifact, which the runners derive from its name ("" is  *)
(* no uri)                                                                    *)
Ev(type, tag, ref) ==
  [type |-> type, tag |-> tag, ref |-> ref,
   uri |-> IF type = "artifact" THEN "/workspace/output/" \o tag ELSE ""]

(* uuid4(): the n-th identifier drawn by the code of run `run`; two draws   *)
(* never agree                                                              *)
uuid4(run, n) == <<run, n>>

(* EventFactory(run_id).__init__ : _sequence = 0 *)
NewFactorySequence == 0

(* wrap returning the sequence number it had before the increment *)
wrapPostIncrement(seq, run, n, event) ==
  [sourceEventId |-> uuid4(run, n), sourceSequence |-> seq, runId |-> run, event |-> event]

(* EventFactory.wrap: self._sequence += 1, then the envelope *)
wrap(seq, run, n, event) ==
  [sourceEventId |-> uuid4(run, n), sourceSequence |-> seq + 1, runId |-> run, event |-> event]

(* a counter that wrap does not store back *)
SeqAfterWrapStale(seq) == seq

(* EventFactory.last_sequence after one wrap *)
SeqAfterWrap(seq) == seq + 1

(* the runner object before construction (an unused slot) *)
NoRunner ==
  [status |-> "none", sid |-> <<>>, pbc |-> 0,
   seq |-> 0, buf |-> <<>>, killed |-> FALSE, completed |-> FALSE,
   fut |-> "none", pdid |-> 0, task |-> "none", cancel |-> FALSE,
   proc |-> "none", rc |-> 0, sig |-> "none", nlines |-> 0, msid |-> <<>>,
   rsid |-> <<>>, nid |-> 0,
   hist |-> <<>>, taken |-> <<>>, resolved |-> 0]

(* a runner that draws a new session id whatever it is given *)
NewRunnerOwnSession(r, rsid) ==
  [NoRunner EXCEPT
     !.status = "running",
     !.sid = <<"uuid", r>>,
     !.rsid = rsid,
     !.seq = NewFactorySequence,
     !.task = "init"]

(* MockRunner.__init__ / CodexRunner.__init__, followed by start() *)
NewRunner(r, rsid) ==
  [NoRunner EXCEPT
     !.status = "running",
     !.sid = IF rsid # <<>> THEN rsid ELSE <<"uuid", r>>,
     !.rsid = rsid,
     !.seq = NewFactorySequence,
     !.task = "init"]

(* MockRunner._emit / CodexRunner._emit: wrap, then append to _event_buffer.   *)
(* rec is a runner object, run its index.                                      *)
Emit(rec, run, event) ==
  LET e == wrap(rec.seq, run, rec.nid, event) IN
  [rec EXCEPT !.seq = SeqAfterWrap(rec.seq),
              !.nid = @ + 1,
              !.buf = Append(@, e),
              !.hist = Append(@, e)]

(* is_running that looks at _killed only *)
is_runningNotKilled(rec) == ~rec.killed

(* is_running: not self._killed and not self._completed *)
is_running(rec) == ~rec.killed /\ ~rec.completed

(* asyncio.Task.done() *)
TaskDone(rec) == rec.task \in {"none", "done", "cancelled", "failed"}

(* AgentHandle(...) built anew on a status transition: pendingBriefChanges   *)
(* is not passed, so the new handle carries None                             *)
SetStatus(rec, s) == [rec EXCEPT !.status = s, !.pbc = 0]

(* the decision id a scripted run generates (uuid4, one per run) *)
DecisionId(r) == r

(* ids a /resolve or /checkpoint request may carry: the decision id of every *)
(* run started so far and one id that no run generates                       *)
NoSuchId == MaxRunners + 1

ReqIds == {DecisionId(r) : r \in 1..nrun} \cup {NoSuchId}

(* ---------------- responses of the control surface ---------------- *)
(* req: for a /kill or /pause response, what the handler was asked and met:  *)
(* the runner r, grace, whether r was running when the request arrived       *)
(* (live), how often kill()'s wait for exit timed out (esc); for a /resume   *)
(* response, the runner r whose checkpoint the request carried.              *)
(* sid: the sessionId of a SerializedAgentState or AgentHandle returned      *)
NoReq == [r |-> 0, grace |-> FALSE, live |-> FALSE, esc |-> 0]

Resp(op, code, ok, ids, last) ==
  [op |-> op, code |-> code, ok |-> ok, ids |-> ids, last |-> last, req |-> NoReq,
   sid |-> <<>>]

NoResp == Resp("none", 0, FALSE, <<>>, 0)

(* ---------------- MockRunner._run_script ---------------- *)
(* step 4 going to waiting_on_human without emitting the decision event *)
AskDecisionUnannounced(rec, r) ==
  LET a == SetStatus([rec EXCEPT !.pdid = DecisionId(r)], "waiting_on_human")
  IN [a EXCEPT !.fut = "pending", !.task = "wait"]

(* step 4 of the script up to its wait: the pending decision id, status      *)
(* waiting_on_human, the tool-approval event, the future                     *)
AskDecision(rec, r) ==
  LET a == SetStatus([rec EXCEPT !.pdid = DecisionId(r)], "waiting_on_human")
      b == Emit(a, r, Ev("decision", "tool_approval", DecisionId(r)))
  IN [b EXCEPT !.fut = "pending", !.task = "wait"]

(* the code between two suspension points, from position rec.task *)
ScriptStep(rec, r) ==
  CASE rec.task = "init" ->
         [Emit(rec, r, Ev("lifecycle", "started", 0)) EXCEPT !.task = "s1"]
    [] rec.task = "s1" ->
         IF rec.killed THEN [rec EXCEPT !.task = "done"]
         ELSE [Emit(rec, r, Ev("status", "Starting task...", 0)) EXCEPT !.task = "s2"]
    [] rec.task = "s2" ->
         IF rec.killed THEN [rec EXCEPT !.task = "done"]
         ELSE [Emit(rec, r, Ev("tool_call", "requested", r)) EXCEPT !.task = "s3"]
    [] rec.task = "s3" ->
         [Emit(rec, r, Ev("tool_call", "running", r)) EXCEPT !.task = "s4"]
    [] rec.task = "s4" ->
         [Emit(rec, r, Ev("tool_call", "completed", r)) EXCEPT !.task = "s5"]
    [] rec.task = "s5" ->
         IF rec.killed THEN [rec EXCEPT !.task = "done"]
         ELSE AskDecision(rec, r)
    [] rec.task = "wait" ->
         LET a == [rec EXCEPT !.pdid = 0, !.fut = "none"] IN
         IF a.killed THEN [a EXCEPT !.task = "done"]
         ELSE [Emit(SetStatus(a, "running"), r, Ev("artifact", "report.md", 0))
                 EXCEPT !.task = "s6"]
    [] rec.task = "s6" ->
         IF rec.killed THEN [rec EXCEPT !.task = "done"]
         ELSE LET a == Emit(rec, r, Ev("completion", "success", 0)) IN
              [SetStatus(a, "completed") EXCEPT !.completed = TRUE, !.task = "done"]

(* a script that does not wait for _decision_future *)
ScriptReadyNoWait(rec) ==
  /\ rec.task \in {"init", "s1", "s2", "s3", "s4", "s5", "wait", "s6"}
  /\ ~rec.cancel

(* a script whose wait on _decision_future never ends *)
ScriptReadyNeverResumed(rec) ==
  /\ rec.task \in {"init", "s1", "s2", "s3", "s4", "s5", "s6"}
  /\ ~rec.cancel

(* whether the suspended coroutine can be resumed normally: a sleep always   *)
(* ends, the wait on _decision_future ends when the future has a result      *)
ScriptReady(rec) ==
  /\ rec.task \in {"init", "s1", "s2", "s3", "s4", "s5", "wait", "s6"}
  /\ ~rec.cancel
  /\ rec.task = "wait" => rec.fut = "result"

MockStep(r) ==
  /\ mock
  /\ r \in 1..nrun
  /\ ScriptReady(R[r])
  /\ LET new == ScriptStep(R[r], r) IN
       /\ R' = [R EXCEPT ![r] = new]
  /\ resp' = NoResp
  /\ UNCHANGED <<mapper, call, mock, cur, nrun, event_buffer, sent, H, nstop>>

(* Task.cancel() delivered at the task's next step.  A coroutine that never  *)
(* ran ends cancelled without running; _run_script catches CancelledError at *)
(* every suspension point and returns; _spawn_and_read does not catch it.    *)
Cancelled(rec) ==
  [rec EXCEPT !.cancel = FALSE,
              !.task = IF mock /\ rec.task # "init" THEN "done" ELSE "cancelled"]

TaskCancelled(r) ==
  /\ r \in 1..nrun
  /\ R[r].cancel
  /\ ~TaskDone(R[r])
  /\ R' = [R EXCEPT ![r] = Cancelled(R[r])]
  /\ resp' = NoResp
  /\ UNCHANGED <<mapper, call, mock, cur, nrun, event_buffer, sent, H, nstop>>

(* ---------------- CodexRunner._spawn_and_read ---------------- *)
(* first step of the task: up to the await of create_subprocess_exec *)
CodexStart(r) ==
  /\ ~mock
  /\ r \in 1..nrun
  /\ R[r].task = "init" /\ ~R[r].cancel
  /\ R' = [R EXCEPT ![r].task = "spawning"]
  /\ resp' = NoResp
  /\ UNCHANGED <<mapper, call, mock, cur, nrun, event_buffer, sent, H, nstop>>

(* create_subprocess_exec returned a process: lifecycle started, then readline *)
Launched(rec, r) ==
  [Emit([rec EXCEPT !.proc = "alive"], r, Ev("lifecycle", "started", 0))
     EXCEPT !.task = "reading"]

(* except FileNotFoundError: error, completion(abandoned), status error *)
LaunchNotFound(rec, r) ==
  LET a == Emit(rec, r, Ev("error", "critical", 0))
      b == Emit(a, r, Ev("completion", "abandoned", 0))
  IN [SetStatus([b EXCEPT !.completed = TRUE], "error") EXCEPT !.task = "done"]

(* any other OSError of create_subprocess_exec (PermissionError, ...) is not *)
(* caught: the task ends with the exception                                  *)
LaunchRaised(rec) == [rec EXCEPT !.task = "failed"]

SpawnResult(r) ==
  /\ ~mock
  /\ r \in 1..nrun
  /\ R[r].task = "spawning" /\ ~R[r].cancel
  /\ \E new \in {Launched(R[r], r), LaunchNotFound(R[r], r),
                 LaunchRaised(R[r])} :
       /\ R' = [R EXCEPT ![r] = new]
  /\ resp' = NoResp
  /\ UNCHANGED <<mapper, call, mock, cur, nrun, event_buffer, sent, H, nstop>>

(* the kinds of line the subprocess writes: not JSON (skipped), a            *)
(* thread.started object, an object mapped to one status event, and JSON     *)
(* that is not an object (map_event raises on data.get)                      *)
LineKinds == {"malformed", "thread.started", "turn.started", "not_object"}

(* one iteration of the read loop on a line of the given kind *)
ReadLine(rec, r, kind) ==
  LET c == [rec EXCEPT !.nlines = @ + 1] IN
  CASE kind = "malformed" -> c
    [] kind = "not_object" -> [c EXCEPT !.task = "failed"]
    [] kind = "turn.started" -> Emit(c, r, Ev("status", "Turn started", 0))
    [] kind = "thread.started" ->
         LET m == [c EXCEPT !.msid = <<"thread", r>>] IN
         IF m.sid # m.msid
           THEN SetStatus([m EXCEPT !.sid = m.msid], "running")
           ELSE m

(* _handle_exit that does not set _completed *)
HandleExitNoFlag(rec, r) ==
  IF rec.rc = 0
    THEN LET a == Emit(rec, r, Ev("completion", "success", 0)) IN
         [SetStatus(a, "completed") EXCEPT !.task = "done"]
    ELSE [rec EXCEPT !.task = "stderr"]

(* CodexRunner._handle_exit after process.wait() returned rec.rc *)
HandleExit(rec, r) ==
  IF rec.rc = 0
    THEN LET a == Emit(rec, r, Ev("completion", "success", 0)) IN
         [SetStatus(a, "completed") EXCEPT !.completed = TRUE, !.task = "done"]
    ELSE [rec EXCEPT !.task = "stderr"]

(* the crash report with the lifecycle event first *)
HandleCrashLifecycleFirst(rec, r) ==
  LET a == Emit(rec, r, Ev("lifecycle", "crashed", 0))
      b == Emit(a, r, Ev("error", "high", 0))
  IN [SetStatus(b, "error") EXCEPT !.completed = TRUE, !.task = "done"]

(* after stderr.read(): error, lifecycle crashed, status error *)
HandleCrash(rec, r) ==
  LET a == Emit(rec, r, Ev("error", "high", 0))
      b == Emit(a, r, Ev("lifecycle", "crashed", 0))
  IN [SetStatus(b, "error") EXCEPT !.completed = TRUE, !.task = "done"]

ReaderLine(r) ==
  /\ ~mock
  /\ r \in 1..nrun
  /\ R[r].task = "reading" /\ ~R[r].cancel
  /\ R[r].nlines < MaxLines
  /\ \E kind \in LineKinds :
       LET new == ReadLine(R[r], r, kind) IN
         /\ R' = [R EXCEPT ![r] = new]
  /\ resp' = NoResp
  /\ UNCHANGED <<mapper, call, mock, cur, nrun, event_buffer, sent, H, nstop>>

(* readline returned b"": the loop ends and _handle_exit awaits wait(), which *)
(* returns at once when the exit has been seen                                *)
ReaderEof(r) ==
  /\ ~mock
  /\ r \in 1..nrun
  /\ R[r].task = "reading" /\ ~R[r].cancel
  /\ LET new == IF R[r].proc = "exited" THEN HandleExit(R[r], r)
                ELSE [R[r] EXCEPT !.task = "wait_exit"] IN
       /\ R' = [R EXCEPT ![r] = new]
  /\ resp' = NoResp
  /\ UNCHANGED <<mapper, call, mock, cur, nrun, event_buffer, sent, H, nstop>>

ReaderExit(r) ==
  /\ ~mock
  /\ r \in 1..nrun
  /\ R[r].task = "wait_exit" /\ ~R[r].cancel
  /\ R[r].proc = "exited"
  /\ LET new == HandleExit(R[r], r) IN
       /\ R' = [R EXCEPT ![r] = new]
  /\ resp' = NoResp
  /\ UNCHANGED <<mapper, call, mock, cur, nrun, event_buffer, sent, H, nstop>>

ReaderStderr(r) ==
  /\ ~mock
  /\ r \in 1..nrun
  /\ R[r].task = "stderr" /\ ~R[r].cancel
  /\ LET new == HandleCrash(R[r], r) IN
       /\ R' = [R EXCEPT ![r] = new]
  /\ resp' = NoResp
  /\ UNCHANGED <<mapper, call, mock, cur, nrun, event_buffer, sent, H, nstop>>

(* the subprocess (external): it exits by itself with 0 or 1, on SIGTERM with *)
(* -15 unless it handles the signal, on SIGKILL with -9                       *)
ExitCodes(rec) ==
  CASE rec.sig = "kill" -> {-9}
    [] rec.sig = "term" -> {-15, 0, 1}
    [] OTHER -> {0, 1}

ProcExit(r) ==
  /\ ~mock
  /\ r \in 1..nrun
  /\ R[r].proc = "alive"
  /\ \E code \in ExitCodes(R[r]) :
       R' = [R EXCEPT ![r].proc = "exited", ![r].rc = code]
  /\ resp' = NoResp
  /\ UNCHANGED <<mapper, call, mock, cur, nrun, event_buffer, sent, H, nstop>>

(* ---------------- drain_events and _drain_to_buffer ---------------- *)
(* drain_events without the clear() *)
drain_eventsNoClear(rec) == [events |-> rec.buf, rec |-> rec]

(* drain_events: events = list(self._event_buffer); self._event_buffer.clear() *)
drain_events(rec) ==
  [events |-> rec.buf, rec |-> [rec EXCEPT !.buf = <<>>]]

(* a cap that keeps the oldest MAX_EVENT_BUFFER envelopes *)
CapBufferOldest(s) ==
  IF Len(s) > MAX_EVENT_BUFFER
    THEN SubSeq(s, 1, MAX_EVENT_BUFFER)
    ELSE s

(* state.event_buffer[-MAX_EVENT_BUFFER:] when longer than MAX_EVENT_BUFFER *)
CapBuffer(s) ==
  IF Len(s) > MAX_EVENT_BUFFER
    THEN SubSeq(s, Len(s) - MAX_EVENT_BUFFER + 1, Len(s))
    ELSE s

(* _drain_to_buffer(state), as the pair of its effects on the runners RR and *)
(* on the shared buffer eb; c is state.runner                                *)
DrainRunners(RR, c) ==
  IF c = 0 THEN RR
  ELSE LET d == drain_events(RR[c]) IN
       [RR EXCEPT ![c] = [d.rec EXCEPT !.taken = @ \o d.events]]

DrainBuffer(RR, c, eb) ==
  IF c = 0 THEN eb ELSE CapBuffer(eb \o drain_events(RR[c]).events)

(* ---------------- kill and pause ---------------- *)
(* a handler's record: the request (op, the runner r it found in            *)
(* state.runner, grace), kill()'s local `forced`, its position pc, and two   *)
(* observations kept for the response's req: whether r was running when the  *)
(* request arrived (live) and how often kill()'s wait for exit timed out     *)
(* (esc)                                                                     *)
NoStop ==
  [op |-> "none", r |-> 0, grace |-> FALSE, forced |-> FALSE, pc |-> "done",
   live |-> FALSE, esc |-> 0]

(* kill()/pause() going on to the final event without cancelling the task *)
CancelPhaseNoCancel(rec) == [rec |-> rec, pc |-> "final"]

(* "if self._read_task and not self._read_task.done(): cancel(); await":     *)
(* either the caller suspends on the task or goes on to the final event      *)
CancelPhase(rec) ==
  IF ~TaskDone(rec)
    THEN [rec |-> [rec EXCEPT !.cancel = TRUE], pc |-> "await_task"]
    ELSE [rec |-> rec, pc |-> "final"]

(* kill()/pause() up to their first suspension point *)
StopEnter(rec, grace) ==
  LET k == [rec EXCEPT !.killed = TRUE] IN
  IF mock
    THEN CancelPhase([k EXCEPT !.fut = IF @ = "pending" THEN "cancelled" ELSE @])
    ELSE IF k.proc = "alive"
           THEN IF grace
                  THEN [rec |-> [k EXCEPT !.sig = "term"], pc |-> "wait_term"]
                  ELSE [rec |-> [k EXCEPT !.sig = "kill"], pc |-> "wait_kill"]
           ELSE CancelPhase(k)

(* the tail of kill(): the killed event, status completed (CodexRunner also  *)
(* sets _completed)                                                          *)
KillTail(rec, r, forced) ==
  LET a == Emit(rec, r,
                Ev("lifecycle", "killed", IF forced THEN "force" ELSE "graceful"))
      b == SetStatus(a, "completed")
  IN IF mock THEN b ELSE [b EXCEPT !.completed = TRUE]

(* a pause() tail that leaves the handle as it was *)
PauseTailNoStatus(rec, r) == Emit(rec, r, Ev("lifecycle", "paused", 0))

(* the tail of pause(): the paused event, status paused *)
PauseTail(rec, r) ==
  SetStatus(Emit(rec, r, Ev("lifecycle", "paused", 0)), "paused")

StopTail(rec, op, r, forced) ==
  IF op = "kill" THEN KillTail(rec, r, forced) ELSE PauseTail(rec, r)

(* a KillResponse that always reports a clean shutdown *)
StopRespAlwaysClean(rec, op, forced) ==
  IF op = "kill"
    THEN Resp("kill", 200, TRUE, <<>>, 0)
    ELSE Resp("pause", 200, TRUE,
              IF mock /\ rec.pdid # 0 THEN <<rec.pdid>> ELSE <<>>, rec.seq)

(* KillResponse (ok is cleanShutdown) / SerializedAgentState (ids is        *)
(* pendingDecisionIds, last is lastSequence) returned by the runner          *)
StopResp(rec, op, forced) ==
  IF op = "kill"
    THEN Resp("kill", 200, ~forced, <<>>, 0)
    ELSE [Resp("pause", 200, TRUE,
               IF mock /\ rec.pdid # 0 THEN <<rec.pdid>> ELSE <<>>, rec.seq)
            EXCEPT !.sid = rec.sid]

(* the rest of the /kill or /pause handler once the runner method goes on to *)
(* its tail: the final event, then _drain_to_buffer(state) on the runner     *)
(* state.runner names now, then the response                                 *)
StopFinish(h, hr, rec) ==
  LET done == StopTail(rec, hr.op, hr.r, hr.forced)
      RR == [R EXCEPT ![hr.r] = done]
  IN /\ R' = DrainRunners(RR, cur)
     /\ event_buffer' = DrainBuffer(RR, cur, event_buffer)
     /\ resp' = [StopResp(done, hr.op, hr.forced) EXCEPT
                   !.req = [r |-> hr.r, grace |-> hr.grace, live |-> hr.live,
                            esc |-> hr.esc]]
     /\ H' = [H EXCEPT ![h] = NoStop]

(* the handler goes on after a suspension: to the next one, or to the tail *)
StopGoOn(h, hr, next) ==
  IF next.pc = "final"
    THEN StopFinish(h, hr, next.rec)
    ELSE /\ R' = [R EXCEPT ![hr.r] = next.rec]
         /\ H' = [H EXCEPT ![h] = [hr EXCEPT !.pc = next.pc]]
         /\ resp' = NoResp
         /\ UNCHANGED event_buffer

(* POST /kill and POST /pause with a runner present *)
StopRequest(op, grace) ==
  /\ cur # 0
  /\ nstop < MaxStops
  /\ nstop' = nstop + 1
  /\ StopGoOn(nstop + 1,
              [NoStop EXCEPT !.op = op, !.r = cur, !.grace = grace,
                             !.forced = ~grace, !.live = is_running(R[cur])],
              StopEnter(R[cur], grace))
  /\ UNCHANGED <<mapper, call, mock, cur, nrun, sent>>

Kill == \E grace \in BOOLEAN : StopRequest("kill", grace)

Pause == StopRequest("pause", TRUE)

(* wait_for(process.wait(), 5.0) or process.wait() returned *)
StopProcessExited(h) ==
  /\ h \in 1..nstop
  /\ H[h].pc \in {"wait_term", "wait_kill"}
  /\ R[H[h].r].proc = "exited"
  /\ StopGoOn(h, H[h], CancelPhase(R[H[h].r]))
  /\ UNCHANGED <<mapper, call, mock, cur, nrun, sent, nstop>>

(* asyncio.TimeoutError after 5 seconds: forced, process.kill(), wait again *)
StopTimeout(h) ==
  /\ h \in 1..nstop
  /\ H[h].pc = "wait_term"
  /\ R[H[h].r].proc = "alive"
  /\ R' = [R EXCEPT ![H[h].r].sig = "kill"]
  /\ H' = [H EXCEPT ![h].forced = (H[h].op = "kill"), ![h].pc = "wait_kill",
                    ![h].esc = IF H[h].op = "kill" THEN @ + 1 ELSE @]
  /\ resp' = NoResp
  /\ UNCHANGED <<mapper, call, mock, cur, nrun, event_buffer, sent, nstop>>

(* "await self._task" returned: the task has ended *)
StopTaskEnded(h) ==
  /\ h \in 1..nstop
  /\ H[h].pc = "await_task"
  /\ TaskDone(R[H[h].r])
  /\ StopFinish(h, H[h], R[H[h].r])
  /\ UNCHANGED <<mapper, call, mock, cur, nrun, sent, nstop>>

(* ---------------- the control surface (app.py) ---------------- *)
(* /spawn without its check, as /resume is written *)
SpawnConflictMissing == FALSE

(* spawn: "state.runner is not None and state.runner.is_running" -> 409 *)
SpawnConflict == cur # 0 /\ is_running(R[cur])

(* state.runner = runner; runner.start() *)
Install(rsid) ==
  /\ nrun < MaxRunners
  /\ nrun' = nrun + 1
  /\ cur' = nrun + 1
  /\ R' = [R EXCEPT ![nrun + 1] = NewRunner(nrun + 1, rsid)]

(* POST /spawn *)
Spawn ==
  /\ IF SpawnConflict
       THEN /\ resp' = Resp("spawn", 409, FALSE, <<>>, 0)
            /\ UNCHANGED <<cur, nrun, R>>
       ELSE /\ Install(<<>>)
            /\ resp' = Resp("spawn", 200, TRUE, <<>>, 0)
  /\ UNCHANGED <<mapper, call, mock, event_buffer, sent, H, nstop>>

(* POST /resume with a checkpoint this adapter issued for runner c: the mock *)
(* runner takes only the brief, the codex runner also the session id         *)
Resume ==
  /\ \E c \in 1..nrun :
       /\ Install(IF mock THEN <<>> ELSE R[c].sid)
       /\ resp' = [Resp("resume", 200, TRUE, <<>>, 0) EXCEPT
                     !.req.r = c, !.sid = R'[nrun + 1].sid]
  /\ UNCHANGED <<mapper, call, mock, event_buffer, sent, H, nstop>>

(* /update-brief accepted although there is no runner *)
NoRunnerRequestAccepted ==
  /\ cur = 0
  /\ \E op \in {"kill", "pause", "resolve", "checkpoint", "update-brief"} :
       resp' = IF op = "update-brief" THEN Resp(op, 200, TRUE, <<>>, 0)
               ELSE Resp(op, 404, FALSE, <<>>, 0)
  /\ UNCHANGED <<mapper, call, mock, cur, nrun, R, event_buffer, sent, H, nstop>>

(* the 404 of /kill, /pause, /resolve, /checkpoint, /update-brief when       *)
(* state.runner is None                                                      *)
NoRunnerRequest ==
  /\ cur = 0
  /\ \E op \in {"kill", "pause", "resolve", "checkpoint", "update-brief"} :
       resp' = Resp(op, 404, FALSE, <<>>, 0)
  /\ UNCHANGED <<mapper, call, mock, cur, nrun, R, event_buffer, sent, H, nstop>>

(* resolve_decision that does not compare the id *)
resolve_decisionAnyId(rec, id) ==
  /\ mock
  /\ rec.fut = "pending"

(* resolve_decision with a CodexRunner that acknowledges every request *)
resolve_decisionCodexAck(rec, id) ==
  mock => (rec.fut = "pending" /\ id = rec.pdid)

(* resolve_decision without "not self._decision_future.done()" *)
resolve_decisionDoneToo(rec, id) ==
  /\ mock
  /\ rec.fut \in {"pending", "result"}
  /\ id = rec.pdid

(* MockRunner.resolve_decision's condition; CodexRunner's returns False *)
resolve_decision(rec, id) ==
  /\ mock
  /\ rec.fut = "pending"
  /\ id = rec.pdid

(* POST /resolve *)
Resolve ==
  /\ cur # 0
  /\ \E id \in ReqIds :
       IF resolve_decision(R[cur], id)
         THEN /\ R' = [R EXCEPT ![cur].fut = "result", ![cur].resolved = id]
              /\ resp' = Resp("resolve", 200, TRUE, <<id>>, 0)
         ELSE /\ R' = R
              /\ resp' = Resp("resolve", 404, FALSE, <<id>>, 0)
  /\ UNCHANGED <<mapper, call, mock, cur, nrun, event_buffer, sent, H, nstop>>

(* get_checkpoint listing the runner's own pending decision, as pause does *)
get_checkpointPending(rec, did) ==
  Resp("checkpoint", 200, TRUE, IF rec.pdid # 0 THEN <<rec.pdid>> ELSE <<>>, rec.seq)

(* get_checkpoint(decision_id); 0 stands for the empty string *)
get_checkpoint(rec, did) ==
  [Resp("checkpoint", 200, TRUE, IF did # 0 THEN <<did>> ELSE <<>>, rec.seq)
     EXCEPT !.sid = rec.sid]

(* POST /checkpoint *)
Checkpoint ==
  /\ cur # 0
  /\ \E did \in {0} \cup ReqIds : resp' = get_checkpoint(R[cur], did)
  /\ UNCHANGED <<mapper, call, mock, cur, nrun, R, event_buffer, sent, H, nstop>>

(* POST /update-brief: the handle is replaced by one carrying the changes *)
UpdateBrief ==
  /\ cur # 0
  /\ R' = [R EXCEPT ![cur].pbc = 1]
  /\ resp' = Resp("update-brief", 200, TRUE, <<>>, 0)
  /\ UNCHANGED <<mapper, call, mock, cur, nrun, event_buffer, sent, H, nstop>>

(* ---------------- the event stream (events_ws) ---------------- *)
(* _drain_to_buffer(state) at the top of the loop *)
WsDrain ==
  /\ R' = DrainRunners(R, cur)
  /\ event_buffer' = DrainBuffer(R, cur, event_buffer)
  /\ resp' = NoResp
  /\ UNCHANGED <<mapper, call, mock, cur, nrun, sent, H, nstop>>

(* ---------------- artifact upload (artifact_upload.py) ---------------- *)
(* what the sink may do with one upload: the request raises, the sink       *)
(* answers with a status other than 201, with 201 and no backendUri, with   *)
(* 201 and an empty backendUri, or with 201 and a backendUri                *)
UploadOutcomes == {"raised", "refused", "no_uri", "empty_uri", "stored"}

BackendUri == "artifact://backend/1"

(* upload_artifact_content: the backendUri of a 201 answer, else None ("")  *)
upload_artifact_content(outcome) ==
  IF outcome = "stored" THEN BackendUri ELSE ""

(* a rewrite that puts whatever the sink returned into the artifact *)
rewrite_artifact_uriAlways(env, outcome) ==
  IF env.event.type # "artifact" THEN env
  ELSE [env EXCEPT !.event.uri = upload_artifact_content(outcome)]

(* rewrite_artifact_uri: only an ArtifactEvent, and only "if backend_uri",   *)
(* gets a copy of the envelope whose event has the new uri                   *)
rewrite_artifact_uri(env, outcome) ==
  IF env.event.type # "artifact" THEN env
  ELSE LET backend_uri == upload_artifact_content(outcome) IN
       IF backend_uri # ""
         THEN [env EXCEPT !.event.uri = backend_uri]
         ELSE env

(* ---------------- the event stream, one connection c ---------------- *)
NoEnvelope == <<>>

NoChannel == [last |-> NoEnvelope, hold |-> NoEnvelope, sink |-> "none"]

(* a pop() that takes the newest envelope *)
popNewest(eb) == [event |-> eb[Len(eb)], rest |-> SubSeq(eb, 1, Len(eb) - 1)]

(* state.event_buffer.pop(0) *)
pop0(eb) == [event |-> Head(eb), rest |-> Tail(eb)]

(* "while state.event_buffer: event = state.event_buffer.pop(0)": the        *)
(* connection suspends holding the envelope, or leaves the loop; eb and ss   *)
(* are the buffer and the connections as the step has left them so far       *)
WsPop(c, eb, ss) ==
  IF eb = <<>>
    THEN /\ event_buffer' = eb
         /\ sent' = [ss EXCEPT ![c].hold = NoEnvelope]
    ELSE /\ event_buffer' = pop0(eb).rest
         /\ sent' = [ss EXCEPT ![c].hold = <<pop0(eb).event>>]

(* the connection wakes from a sleep: _drain_to_buffer(state), then the      *)
(* first pop                                                                 *)
WsLoop(c) ==
  /\ sent[c].hold = NoEnvelope
  /\ R' = DrainRunners(R, cur)
  /\ WsPop(c, DrainBuffer(R, cur, event_buffer), sent)
  /\ resp' = NoResp
  /\ UNCHANGED <<mapper, call, mock, cur, nrun, H, nstop>>

(* "if upload_endpoint: event = await rewrite_artifact_uri(...)", then       *)
(* "await websocket.send_json(event)" returned, then the next pop; "off" is  *)
(* a connection with no upload endpoint configured; the sink is asked for    *)
(* an ArtifactEvent only                                                     *)
WsSend(c) ==
  /\ sent[c].hold # NoEnvelope
  /\ LET event == sent[c].hold[1] IN
     IF event.event.type # "artifact"
       THEN WsPop(c, event_buffer, [sent EXCEPT ![c].last = <<event>>])
       ELSE \E outcome \in {"off"} \cup UploadOutcomes :
              WsPop(c, event_buffer,
                    [sent EXCEPT ![c].last =
                                   <<IF outcome = "off" THEN event
                                     ELSE rewrite_artifact_uri(event, outcome)>>,
                                 ![c].sink = outcome])
  /\ resp' = NoResp
  /\ UNCHANGED <<mapper, call, mock, cur, nrun, R, H, nstop>>

(* "await websocket.send_json(event)" raises: WebSocketDisconnect or         *)
(* another exception ends the handler, and with it                           *)
(* the local variable holding the popped envelope; the channel is free for   *)
(* a client that connects later                                              *)
WsFail(c) ==
  /\ sent[c].hold # NoEnvelope
  /\ sent' = [sent EXCEPT ![c] = NoChannel]
  /\ resp' = NoResp
  /\ UNCHANGED <<mapper, call, mock, cur, nrun, R, event_buffer, H, nstop>>

(* ---------------- CodexEventMapper (event_mapper.py) ---------------- *)
(* A file path: directory part and the parts of the file name, which is     *)
(* prefix, stem, infix, ext written one after the other ("tests/" and       *)
(* "test_", "app", "", ".py" is tests/test_app.py). All parts empty is "".  *)
NoPath == [dir |-> "", prefix |-> "", stem |-> "", infix |-> "", ext |-> ""]

Paths ==
  {NoPath,
   [dir |-> "src/", prefix |-> "", stem |-> "app", infix |-> "", ext |-> ".py"],
   [dir |-> "web/", prefix |-> "", stem |-> "app", infix |-> ".test", ext |-> ".ts"],
   [dir |-> "", prefix |-> "", stem |-> "README", infix |-> "", ext |-> ".MD"]}

(* os.path.basename *)
basename(fp) == [fp EXCEPT !.dir = ""]

(* str.lower on an extension *)
lower(ext) == IF ext = ".MD" THEN ".md" ELSE ext

(* os.path.splitext(base)[1]: the last dotted part of the name *)
splitext(base) == IF base.ext # "" THEN base.ext ELSE base.infix

(* infer_artifact_kind that looks at the extension only *)
infer_artifact_kindByExtension(fp) ==
  LET ext == lower(splitext(basename(fp))) IN
  CASE ext \in {".ts", ".js", ".py", ".rs", ".go", ".java", ".tsx", ".jsx"} -> "code"
    [] ext \in {".md", ".txt", ".rst"} -> "document"
    [] ext \in {".json", ".yaml", ".yml", ".toml", ".ini", ".cfg"} -> "config"
    [] OTHER -> "other"

(* infer_artifact_kind *)
infer_artifact_kind(fp) ==
  LET base == basename(fp)
      ext == lower(splitext(base))
  IN CASE (base.infix \in {".test", ".spec"} /\ base.ext # "")
            \/ base.prefix = "test_" -> "test"
       [] ext \in {".ts", ".js", ".py", ".rs", ".go", ".java", ".tsx", ".jsx"} -> "code"
       [] ext \in {".md", ".txt", ".rst"} -> "document"
       [] ext \in {".json", ".yaml", ".yml", ".toml", ".ini", ".cfg"} -> "config"
       [] OTHER -> "other"

(* the external item ids of the notifications; "" is a notification without *)
(* an id                                                                    *)
ItemIds == {"item_1", "item_2"}

ItemKeys == ItemIds \cup {""}

ToolItemTypes == {"command_execution", "file_change", "mcp_tool_call"}

(* A string built from a text of the notification: its first `take`         *)
(* characters followed by `suffix`. The text itself is the kind of JSON     *)
(* value it is and, for a string or a list (joined with spaces), its length. *)
Str(of, take, suffix) == [of |-> of, take |-> take, suffix |-> suffix]

NoText == [kind |-> "absent", len |-> 0]

Texts ==
  {NoText,
   [kind |-> "str", len |-> StatusTextLimit],
   [kind |-> "str", len |-> StatusTextLimit + 1],
   [kind |-> "list", len |-> StatusTextLimit + 1],
   [kind |-> "number", len |-> 0]}

(* a notification: a JSON object, by the fields the mapper reads; "absent"  *)
(* is a missing field, "scalar" a value that is no object                   *)
Note(type) ==
  [type |-> type, thread |-> 0, usage |-> "absent", error |-> "absent",
   item |-> "absent", itype |-> "", id |-> "", file_path |-> NoPath,
   exit_code |-> 0, text |-> NoText]

Item(type, itype, id) ==
  [Note(type) EXCEPT !.item = "object", !.itype = itype, !.id = id]

ItemEvents == {"item.started", "item.completed"}

Notes ==
  {[Note("thread.started") EXCEPT !.thread = t] : t \in {0, 1}}
  \cup {Note("turn.started"), Note("session.meta"), Note("")}
  \cup {[Note("turn.completed") EXCEPT !.usage = u] : u \in {"absent", "object", "scalar"}}
  \cup {[Note("turn.failed") EXCEPT !.error = u] : u \in {"absent", "object", "scalar"}}
  \cup {Note(et) : et \in ItemEvents}
  \cup {[Note(et) EXCEPT !.item = "scalar"] : et \in ItemEvents}
  \cup {Item("item.started", "command_execution", id) : id \in ItemIds}
  \cup {[Item("item.completed", "command_execution", id) EXCEPT !.exit_code = x] :
          id \in ItemIds, x \in {0, 1}}
  \cup {[Item(et, "file_change", id) EXCEPT !.file_path = fp] :
          et \in ItemEvents, id \in ItemIds, fp \in Paths}
  \cup {Item(et, "mcp_tool_call", id) : et \in ItemEvents, id \in ItemIds}
  \cup {Item(et, it, "item_1") :
          et \in ItemEvents, it \in {"reasoning", "todo_list", "web_search"}}
  \cup {Item("item.started", "agent_message", "item_1")}
  \cup {[Item("item.completed", "agent_message", "item_2") EXCEPT !.text = t] :
          t \in Texts}

(* the events the mapper builds (models.py), by the fields the mapper sets *)
StatusEvent(message) == [type |-> "status", message |-> message]

ErrorEvent == [type |-> "error", severity |-> "high", category |-> "model"]

ProgressEvent(operationId) == [type |-> "progress", operationId |-> operationId]

NoDuration == <<>>

ToolCallEvent(toolCallId, toolName, phase, durationMs) ==
  [type |-> "tool_call", toolCallId |-> toolCallId, toolName |-> toolName,
   phase |-> phase, durationMs |-> durationMs]

ArtifactEvent(artifactId, fp, workstream) ==
  [type |-> "artifact", artifactId |-> artifactId, name |-> basename(fp),
   kind |-> infer_artifact_kind(fp), workstream |-> workstream,
   status |-> "draft", uri |-> fp]

(* CodexEventMapper.__init__; nuuid counts the uuid4() calls and clock the   *)
(* notifications mapped, which is the time datetime.now() reads              *)
NoEntry == <<>>

NewMapper(workstream) ==
  [workstream |-> workstream, session_id |-> <<>>, turn_count |-> 0,
   open_tool_calls |-> [k \in ItemKeys |-> NoEntry], nuuid |-> 0, clock |-> 0]

(* what a call of the mapper does: the mapper after it, the list returned,   *)
(* or an exception raised                                                    *)
Returned(m, events) == [m |-> m, events |-> events, raised |-> FALSE]

Raised(m) == [m |-> m, events |-> <<>>, raised |-> TRUE]

(* str(uuid.uuid4()) as the (n+1)-th draw of the mapper *)
NextUuid(m) == <<"uuid", m.nuuid + 1>>

(* the item.started branch of the three tool handlers *)
HandleToolStarted(m, item_id, tool_name, fp) ==
  LET tool_call_id == NextUuid(m) IN
  Returned([m EXCEPT !.nuuid = @ + 1,
                     !.open_tool_calls[item_id] =
                        <<[tool_call_id |-> tool_call_id, tool_name |-> tool_name,
                           start_time |-> m.clock, file_path |-> fp]>>],
           <<ToolCallEvent(tool_call_id, tool_name, "requested", NoDuration)>>)

(* a completion that never looks its item up *)
PopToolCallFresh(m, item_id) ==
  [m |-> [m EXCEPT !.nuuid = @ + 1, !.open_tool_calls[item_id] = NoEntry],
   tc |-> NoEntry, tool_call_id |-> NextUuid(m), duration_ms |-> NoDuration]

(* a completion that reads the entry with get() and leaves it in place *)
PopToolCallKeep(m, item_id) ==
  LET tc == m.open_tool_calls[item_id] IN
  IF tc # NoEntry
    THEN [m |-> m, tc |-> tc, tool_call_id |-> tc[1].tool_call_id,
          duration_ms |-> <<m.clock - tc[1].start_time>>]
    ELSE [m |-> [m EXCEPT !.nuuid = @ + 1], tc |-> tc,
          tool_call_id |-> NextUuid(m), duration_ms |-> NoDuration]

(* "tc = self._open_tool_calls.pop(item_id, None)" and what follows from it: *)
(* the mapper without the entry, the tool-call id, the duration              *)
PopToolCall(m, item_id) ==
  LET tc == m.open_tool_calls[item_id] IN
  IF tc # NoEntry
    THEN [m |-> [m EXCEPT !.open_tool_calls[item_id] = NoEntry], tc |-> tc,
          tool_call_id |-> tc[1].tool_call_id,
          duration_ms |-> <<m.clock - tc[1].start_time>>]
    ELSE [m |-> [m EXCEPT !.nuuid = @ + 1], tc |-> tc,
          tool_call_id |-> NextUuid(m), duration_ms |-> NoDuration]

(* _handle_command *)
handle_command(m, event_type, item_id, data) ==
  IF event_type = "item.started"
    THEN HandleToolStarted(m, item_id, "Bash", NoPath)
    ELSE LET p == PopToolCall(m, item_id) IN
         Returned(p.m,
                  <<ToolCallEvent(p.tool_call_id, "Bash",
                                  IF data.exit_code = 0 THEN "completed" ELSE "failed",
                                  p.duration_ms)>>)

(* _handle_file_change that takes the path from the completion only *)
handle_file_changeOwnPath(m, event_type, item_id, data) ==
  IF event_type = "item.started"
    THEN HandleToolStarted(m, item_id, "Edit", data.file_path)
    ELSE LET p == PopToolCall(m, item_id)
             fp == data.file_path
             done == ToolCallEvent(p.tool_call_id, "Edit", "completed", p.duration_ms)
         IN IF fp # NoPath
              THEN Returned([p.m EXCEPT !.nuuid = @ + 1],
                            <<done, ArtifactEvent(NextUuid(p.m), fp, m.workstream)>>)
              ELSE Returned(p.m, <<done>>)

(* _handle_file_change *)
handle_file_change(m, event_type, item_id, data) ==
  IF event_type = "item.started"
    THEN HandleToolStarted(m, item_id, "Edit", data.file_path)
    ELSE LET p == PopToolCall(m, item_id)
             fp == IF data.file_path # NoPath THEN data.file_path
                   ELSE IF p.tc # NoEntry THEN p.tc[1].file_path ELSE NoPath
             done == ToolCallEvent(p.tool_call_id, "Edit", "completed", p.duration_ms)
         IN IF fp # NoPath
              THEN Returned([p.m EXCEPT !.nuuid = @ + 1],
                            <<done, ArtifactEvent(NextUuid(p.m), fp, m.workstream)>>)
              ELSE Returned(p.m, <<done>>)

(* _handle_mcp_tool; the notifications name no tool, so tool_name is         *)
(* "mcp_tool"                                                                *)
handle_mcp_tool(m, event_type, item_id, data) ==
  IF event_type = "item.started"
    THEN HandleToolStarted(m, item_id, "mcp_tool", NoPath)
    ELSE LET p == PopToolCall(m, item_id) IN
         Returned(p.m,
                  <<ToolCallEvent(p.tool_call_id,
                                  IF p.tc # NoEntry THEN p.tc[1].tool_name ELSE "mcp_tool",
                                  "completed", p.duration_ms)>>)

(* the agent_message branch cutting the text at the limit *)
HandleAgentMessageStraight(m, text) ==
  IF text.kind = "number" THEN Raised(m)
  ELSE LET joined == IF text.kind = "list" THEN "joined" ELSE "text" IN
       Returned(m, <<StatusEvent(
                       IF text.len > StatusTextLimit
                         THEN Str(joined, StatusTextLimit, "")
                         ELSE Str(joined, text.len, ""))>>)

(* the agent_message branch on item.completed: len() of a number raises      *)
HandleAgentMessage(m, text) ==
  IF text.kind = "number" THEN Raised(m)
  ELSE LET joined == IF text.kind = "list" THEN "joined" ELSE "text" IN
       Returned(m, <<StatusEvent(
                       IF text.len > StatusTextLimit
                         THEN Str(joined, StatusTextKeep, "...")
                         ELSE Str(joined, text.len, ""))>>)

(* _handle_item: item.get on a value that is no object raises *)
handle_item(m, event_type, data) ==
  IF data.item = "scalar" THEN Raised(m)
  ELSE CASE data.itype = "command_execution" ->
              handle_command(m, event_type, data.id, data)
         [] data.itype = "file_change" ->
              handle_file_change(m, event_type, data.id, data)
         [] data.itype = "mcp_tool_call" ->
              handle_mcp_tool(m, event_type, data.id, data)
         [] data.itype = "agent_message" /\ event_type = "item.completed" ->
              HandleAgentMessage(m, data.text)
         [] data.itype = "todo_list" /\ event_type = "item.completed" ->
              IF data.id # ""
                THEN Returned(m, <<ProgressEvent(data.id)>>)
                ELSE Returned([m EXCEPT !.nuuid = @ + 1], <<ProgressEvent(NextUuid(m))>>)
         [] OTHER -> Returned(m, <<>>)

(* map_event: usage.get / error.get on a value that is no object raises *)
map_event(m, data) ==
  CASE data.type = "thread.started" ->
         Returned([m EXCEPT !.session_id =
                      IF data.thread = 0 THEN <<>> ELSE <<"thread", data.thread>>],
                  <<>>)
    [] data.type = "turn.started" ->
         Returned([m EXCEPT !.turn_count = @ + 1],
                  <<StatusEvent(Str("Turn started", m.turn_count + 1, ""))>>)
    [] data.type = "turn.completed" ->
         IF data.usage = "scalar" THEN Raised(m)
         ELSE Returned(m, <<StatusEvent(Str("Turn completed", 0, ""))>>)
    [] data.type = "turn.failed" ->
         IF data.error = "scalar" THEN Raised(m)
         ELSE Returned(m, <<ErrorEvent>>)
    [] data.type \in ItemEvents -> handle_item(m, data.type, data)
    [] OTHER -> Returned(m, <<>>)

(* the tool-call ids in a list of events *)
ToolCallIds(events) ==
  {events[i].toolCallId : i \in {j \in 1..Len(events) : events[j].type = "tool_call"}}

(* a notification of a tool item: an item object of one of the three tool    *)
(* item types                                                                *)
IsToolNote(data) ==
  data.type \in ItemEvents /\ data.item = "object" /\ data.itype \in ToolItemTypes

(* `call` is the last call of map_event: the mapper as it was before          *)
(* (before), the notification (data), the list returned (events) or that the *)
(* call raised, and what the mapper had been given and had returned before   *)
(* this call: by item id, the tool-call id of the "requested" event returned *)
(* for the last item.started of a tool item that no item.completed of a tool *)
(* item with that id followed (requested), and the tool-call ids of all      *)
(* events returned (issued)                                                  *)
NoCall == [fn |-> "none"]

RequestedAfter(c) ==
  IF c.fn # "map_event" THEN [k \in ItemKeys |-> <<>>]
  ELSE IF c.raised \/ ~IsToolNote(c.data) THEN c.requested
  ELSE IF c.data.type = "item.started"
         THEN [c.requested EXCEPT ![c.data.id] = <<c.events[1].toolCallId>>]
         ELSE [c.requested EXCEPT ![c.data.id] = <<>>]

IssuedAfter(c) ==
  IF c.fn # "map_event" THEN {} ELSE c.issued \cup ToolCallIds(c.events)

(* the reader maps one more notification *)
MapEvent ==
  /\ mapper.clock < MaxNotes
  /\ \E data \in Notes :
       LET now == [mapper EXCEPT !.clock = @ + 1]
           ret == map_event(now, data)
       IN /\ mapper' = ret.m
          /\ call' = [fn |-> "map_event", before |-> mapper, data |-> data,
                      events |-> ret.events, raised |-> ret.raised,
                      requested |-> RequestedAfter(call),
                      issued |-> IssuedAfter(call)]
  /\ UNCHANGED <<mock, cur, nrun, R, event_buffer, sent, H, nstop, resp>>

(* ---------------- brief_to_prompt (brief_to_prompt.py) ---------------- *)
(* Strings are kept by their number of characters. A brief: the             *)
(* continuation flag and the lengths of role, workstream, description,      *)
(* project title and description, of every goal and of every constraint;     *)
(* the knowledge snapshot is empty.                                          *)
RECURSIVE SumOf(_)
SumOf(lens) == IF lens = <<>> THEN 0 ELSE Head(lens) + SumOf(Tail(lens))

(* len(sep.join(parts)) for parts of the given lengths *)
JoinLen(lens, sep) ==
  IF lens = <<>> THEN 0 ELSE SumOf(lens) + sep * (Len(lens) - 1)

Brief(continuation, description, ngoals, nconstraints) ==
  [continuation |-> continuation, role |-> 8, workstream |-> 4,
   description |-> description, title |-> 5, project |-> 20,
   goals |-> [i \in 1..ngoals |-> 12],
   constraints |-> [i \in 1..nconstraints |-> 30]]

Briefs ==
  {Brief(c, d, g, k) :
     c \in BOOLEAN, d \in {0, 9000} \cup (7800..7960), g \in 0..MaxGoals, k \in {0, 1}}

(* the lengths of the sections, in order *)
Sections(brief) ==
  (IF brief.continuation THEN <<68>> ELSE <<>>)
  \o <<40 + brief.role + brief.workstream, brief.description,
       14 + brief.title + brief.project>>
  \o (IF brief.goals # <<>>
        THEN <<10 + JoinLen([i \in 1..Len(brief.goals) |-> 2 + brief.goals[i]], 1)>>
        ELSE <<>>)
  \o (IF brief.constraints # <<>>
        THEN <<16 + JoinLen([i \in 1..Len(brief.constraints) |->
                               2 + brief.constraints[i]], 1)>>
        ELSE <<>>)

(* "\n".join(sections) *)
Assembled(brief) == Str("assembled", JoinLen(Sections(brief), 1), "")

(* brief_to_prompt cutting at the limit and then appending the marker *)
brief_to_promptLate(brief) ==
  LET result == Assembled(brief) IN
  IF result.take > PromptLimit
    THEN Str("assembled", PromptLimit, "...")
    ELSE result

(* brief_to_prompt: "if len(result) > 8000: result = result[:7997] + '...'" *)
brief_to_prompt(brief) ==
  LET result == Assembled(brief) IN
  IF result.take > PromptLimit
    THEN Str("assembled", PromptKeep, "...")
    ELSE result

(* _spawn_and_read renders the prompt of its brief *)
RenderPrompt ==
  /\ call.fn = "brief"
  /\ call' = [fn |-> "brief_to_prompt", brief |-> call.brief,
              assembled |-> Assembled(call.brief),
              prompt |-> brief_to_prompt(call.brief)]
  /\ UNCHANGED <<mapper, mock, cur, nrun, R, event_buffer, sent, H, nstop, resp>>

(* ---------------- the system ---------------- *)
Init ==
  /\ mock \in BOOLEAN
  /\ cur = 0
  /\ nrun = 0
  /\ R = [r \in Runners |-> NoRunner]
  /\ event_buffer = <<>>
  /\ sent = [c \in Channels |-> NoChannel]
  /\ H = [h \in Stops |-> NoStop]
  /\ nstop = 0
  /\ resp = NoResp
  /\ mapper = NewMapper("main")
  /\ call = NoCall

(* One run: /spawn requests arrive while no runner exists yet or while the   *)
(* current one is running; every other request and every drain at any time. *)
SpawnFirst ==
  /\ IF cur = 0 THEN TRUE ELSE is_running(R[cur])
  /\ Spawn

Next ==
  \/ SpawnFirst
  \/ NoRunnerRequest
  \/ Kill
  \/ Pause
  \/ Resolve
  \/ WsDrain
  \/ \E r \in Runners : MockStep(r)
  \/ \E r \in Runners : TaskCancelled(r)
  \/ \E r \in Runners : CodexStart(r)
  \/ \E r \in Runners : SpawnResult(r)
  \/ \E r \in Runners : ReaderLine(r)
  \/ \E r \in Runners : ReaderEof(r)
  \/ \E r \in Runners : ReaderExit(r)
  \/ \E r \in Runners : ReaderStderr(r)
  \/ \E r \in Runners : ProcExit(r)
  \/ \E h \in Stops : StopProcessExited(h)
  \/ \E h \in Stops : StopTimeout(h)
  \/ \E h \in Stops : StopTaskEnded(h)

Spec == Init /\ [][Next]_vars

(* Several runs: /spawn and /resume at any time, /kill and /pause; the       *)
(* subprocesses write no output and no decision is resolved.                 *)
NextApp ==
  \/ Spawn
  \/ Resume
  \/ Kill
  \/ Pause
  \/ \E r \in Runners : MockStep(r)
  \/ \E r \in Runners : TaskCancelled(r)
  \/ \E r \in Runners : CodexStart(r)
  \/ \E r \in Runners : SpawnResult(r)
  \/ \E r \in Runners : ReaderEof(r)
  \/ \E r \in Runners : ReaderExit(r)
  \/ \E r \in Runners : ReaderStderr(r)
  \/ \E r \in Runners : ProcExit(r)
  \/ \E h \in Stops : StopProcessExited(h)
  \/ \E h \in Stops : StopTimeout(h)
  \/ \E h \in Stops : StopTaskEnded(h)

SpecApp == Init /\ [][NextApp]_vars

(* The control surface with no client on the event stream: one run, every    *)
(* request at any time; the subprocess writes no output.                     *)
NextCtl ==
  \/ SpawnFirst
  \/ NoRunnerRequest
  \/ Kill
  \/ Pause
  \/ Resolve
  \/ Checkpoint
  \/ UpdateBrief
  \/ \E r \in Runners : MockStep(r)
  \/ \E r \in Runners : TaskCancelled(r)
  \/ \E r \in Runners : CodexStart(r)
  \/ \E r \in Runners : SpawnResult(r)
  \/ \E r \in Runners : ReaderEof(r)
  \/ \E r \in Runners : ReaderExit(r)
  \/ \E r \in Runners : ReaderStderr(r)
  \/ \E r \in Runners : ProcExit(r)
  \/ \E h \in Stops : StopProcessExited(h)
  \/ \E h \in Stops : StopTimeout(h)
  \/ \E h \in Stops : StopTaskEnded(h)

SpecCtl == Init /\ [][NextCtl]_vars

(* The event stream: one run, clients connected on every channel of         *)
(* Channels, /kill and /pause at any time.                                   *)
NextWs ==
  \/ SpawnFirst
  \/ Kill
  \/ Pause
  \/ \E c \in Channels : WsLoop(c)
  \/ \E c \in Channels : WsSend(c)
  \/ \E r \in Runners : MockStep(r)
  \/ \E r \in Runners : TaskCancelled(r)
  \/ \E r \in Runners : CodexStart(r)
  \/ \E r \in Runners : SpawnResult(r)
  \/ \E r \in Runners : ReaderLine(r)
  \/ \E r \in Runners : ReaderEof(r)
  \/ \E r \in Runners : ReaderExit(r)
  \/ \E r \in Runners : ReaderStderr(r)
  \/ \E r \in Runners : ProcExit(r)
  \/ \E h \in Stops : StopProcessExited(h)
  \/ \E h \in Stops : StopTimeout(h)
  \/ \E h \in Stops : StopTaskEnded(h)

SpecWs == Init /\ [][NextWs]_vars

(* Continuing a run: one run is started and paused, /resume at any time;     *)
(* the subprocess writes output.                                             *)
NextResume ==
  \/ SpawnFirst
  \/ Pause
  \/ Resume
  \/ \E r \in Runners : MockStep(r)
  \/ \E r \in Runners : TaskCancelled(r)
  \/ \E r \in Runners : CodexStart(r)
  \/ \E r \in Runners : SpawnResult(r)
  \/ \E r \in Runners : ReaderLine(r)
  \/ \E r \in Runners : ReaderEof(r)
  \/ \E r \in Runners : ReaderExit(r)
  \/ \E r \in Runners : ReaderStderr(r)
  \/ \E r \in Runners : ProcExit(r)
  \/ \E h \in Stops : StopProcessExited(h)
  \/ \E h \in Stops : StopTimeout(h)
  \/ \E h \in Stops : StopTaskEnded(h)

SpecResume == Init /\ [][NextResume]_vars

(* A full buffer: a process-backed run has emitted its started event and one *)
(* status event for each of many lines; channel 1 drained when `held` + 1    *)
(* envelopes had been emitted, popped the first and has been sending it      *)
(* since, and `backlog` envelopes were emitted after that drain.             *)
LongRun(n) ==
  [i \in 1..n |->
     wrap(i - 1, 1, i - 1,
          IF i = 1 THEN Ev("lifecycle", "started", 0)
          ELSE Ev("status", "Turn started", 0))]

InitCap ==
  /\ mock = FALSE
  /\ cur = 1
  /\ nrun = 1
  /\ H = [h \in Stops |-> NoStop]
  /\ nstop = 0
  /\ resp = NoResp
  /\ mapper = NewMapper("main")
  /\ call = NoCall
  /\ \E held \in (MAX_EVENT_BUFFER - MaxBacklog)..MAX_EVENT_BUFFER,
        backlog \in 0..MaxBacklog :
       LET n == held + 1 + backlog
           hist == LongRun(n)
       IN /\ R = [r \in Runners |->
                   IF r = 1
                     THEN [NewRunner(1, <<>>) EXCEPT
                             !.task = "reading", !.proc = "alive",
                             !.seq = n, !.nid = n, !.nlines = n - 1,
                             !.hist = hist,
                             !.taken = SubSeq(hist, 1, held + 1),
                             !.buf = SubSeq(hist, held + 2, n)]
                     ELSE NoRunner]
          /\ event_buffer = SubSeq(hist, 2, held + 1)
          /\ sent = [c \in Channels |->
                      IF c = 1 THEN [NoChannel EXCEPT !.hold = <<hist[1]>>]
                      ELSE NoChannel]

NextCap ==
  \/ Kill
  \/ \E c \in Channels : WsLoop(c)
  \/ \E r \in Runners : TaskCancelled(r)
  \/ \E r \in Runners : ProcExit(r)
  \/ \E h \in Stops : StopProcessExited(h)
  \/ \E h \in Stops : StopTimeout(h)
  \/ \E h \in Stops : StopTaskEnded(h)

SpecCap == InitCap /\ [][NextCap]_vars

(* The artifact sink: one scripted run to its end, clients connected on      *)
(* every channel of Channels, the decision resolved at any time.             *)
NextUp ==
  \/ SpawnFirst
  \/ Resolve
  \/ \E c \in Channels : WsLoop(c)
  \/ \E c \in Channels : WsSend(c)
  \/ \E r \in Runners : MockStep(r)

InitUp == Init /\ mock = TRUE

SpecUp == InitUp /\ [][NextUp]_vars

(* The mapper alone: an object constructed for some workstream maps          *)
(* notifications one after the other.                                        *)
InitMap ==
  /\ mock = FALSE
  /\ cur = 0
  /\ nrun = 0
  /\ R = [r \in Runners |-> NoRunner]
  /\ event_buffer = <<>>
  /\ sent = [c \in Channels |-> NoChannel]
  /\ H = [h \in Stops |-> NoStop]
  /\ nstop = 0
  /\ resp = NoResp
  /\ mapper \in {NewMapper(w) : w \in {"main", "docs"}}
  /\ call = NoCall

NextMap == MapEvent

SpecMap == InitMap /\ [][NextMap]_vars

(* The prompt alone: a runner holding some brief renders its prompt.         *)
InitPrompt ==
  /\ mock = FALSE
  /\ cur = 0
  /\ nrun = 0
  /\ R = [r \in Runners |-> NoRunner]
  /\ event_buffer = <<>>
  /\ sent = [c \in Channels |-> NoChannel]
  /\ H = [h \in Stops |-> NoStop]
  /\ nstop = 0
  /\ resp = NoResp
  /\ mapper = NewMapper("main")
  /\ call \in {[fn |-> "brief", brief |-> b] : b \in Briefs}

NextPrompt == RenderPrompt

SpecPrompt == InitPrompt /\ [][NextPrompt]_vars

(* The scripted run under the event loop's scheduling: a task that can run   *)
(* is run (a sleep ends, a future with a result wakes its waiter), requests  *)
(* arrive or not as the callers please.                                      *)
NextScript ==
  \/ SpawnFirst
  \/ Resolve
  \/ Kill
  \/ Pause
  \/ WsDrain
  \/ \E r \in Runners : MockStep(r)
  \/ \E r \in Runners : TaskCancelled(r)
  \/ \E h \in Stops : StopTaskEnded(h)

SpecScript ==
  /\ InitUp
  /\ [][NextScript]_vars
  /\ \A r \in Runners : WF_vars(MockStep(r))

(* Delivery: one scripted run to its end, clients connected on every        *)
(* channel of Channels; a send may fail and the client connect again.        *)
NextDeliver ==
  \/ SpawnFirst
  \/ Resolve
  \/ \E c \in Channels : WsLoop(c)
  \/ \E c \in Channels : WsSend(c)
  \/ \E c \in Channels : WsFail(c)
  \/ \E r \in Runners : MockStep(r)

SpecDeliver == InitUp /\ [][NextDeliver]_vars

(* ======================= the claims ======================= *)
IsEv(e, type, tag) == e.event.type = type /\ e.event.tag = tag

Count(h, type, tag) == Cardinality({i \in 1..Len(h) : IsEv(h[i], type, tag)})

IsFinal(e) == IsEv(e, "lifecycle", "killed") \/ IsEv(e, "lifecycle", "paused")

(* C1: the envelopes a run's factory returned carry, in call order, the      *)
(* sequence numbers 1, 2, 3, ...; all their event identifiers differ.        *)
C1_SequenceInCallOrder ==
  \A r \in Runners :
    LET h == R[r].hist IN
      /\ \A i \in 1..Len(h) : h[i].sourceSequence = i
      /\ \A i, j \in 1..Len(h) : i # j => h[i].sourceEventId # h[j].sourceEventId

C1_Witness ==
  \E r \in Runners : Len(R[r].hist) >= 4 /\ IsFinal(R[r].hist[Len(R[r].hist)])

(* C2: what the drains of a runner returned so far, followed by what is      *)
(* still buffered, is exactly what the run produced, in production order:    *)
(* nothing is lost, nothing is returned twice.                               *)
(* A drain that returned envelopes left the runner's buffer empty.           *)
C2_DrainsPartitionProduction ==
  [][\A r \in Runners :
       /\ R'[r].hist = R'[r].taken \o R'[r].buf
       /\ R'[r].taken # R[r].taken => R'[r].buf = <<>>]_vars

C2_Witness ==
  \E r \in Runners :
    /\ Len(R[r].taken) >= 2
    /\ R[r].buf # <<>>

(* C3: once kill() has returned the runner is not running, its status is     *)
(* completed, and its events hold exactly one killed event, the last one.    *)
C3_KillLeavesOneKilledEvent ==
  (resp.op = "kill" /\ resp.code = 200) =>
    LET rec == R[cur]
        h == rec.hist IN
      /\ ~is_running(rec)
      /\ rec.status = "completed"
      /\ Count(h, "lifecycle", "killed") = 1
      /\ IsEv(h[Len(h)], "lifecycle", "killed")

(* C4: the first envelope of every run is lifecycle started, or an error     *)
(* followed by completion(abandoned) when the process cannot be launched.    *)
C4_FirstEventIsStarted ==
  \A r \in Runners :
    LET h == R[r].hist IN
      Len(h) >= 1 =>
        \/ IsEv(h[1], "lifecycle", "started")
        \/ /\ h[1].event.type = "error"
           /\ Len(h) >= 2
           /\ IsEv(h[2], "completion", "abandoned")

(* C5: a handle status of completed or error never changes again. *)
C5_TerminalStatusStays ==
  [][\A r \in Runners :
       R[r].status \in {"completed", "error"} => R'[r].status = R[r].status]_vars

(* C6: at most one runner the adapter created is running. *)
C6_OneRunnerRunning ==
  Cardinality({r \in Runners : R[r].status # "none" /\ is_running(R[r])}) <= 1

(* C7: a /spawn request made while the current runner is running is answered *)
(* 409 and changes neither the runner, nor any runner object, nor a buffer,  *)
(* nor creates a task.                                                       *)
C7_SpawnWhileRunningRejected ==
  [][(resp'.op = "spawn" /\ (IF cur = 0 THEN FALSE ELSE is_running(R[cur]))) =>
       /\ resp'.code = 409
       /\ UNCHANGED <<cur, nrun, R, event_buffer, sent, H, nstop>>]_vars

C7_Witness ==
  /\ resp.op = "spawn" /\ resp.code = 409
  /\ cur # 0
  /\ R[cur].buf # <<>>
  /\ event_buffer # <<>>

(* C8: a scripted run emits at most one decision event, a tool approval with *)
(* a generated id, and is then waiting_on_human; until resolve_decision has  *)
(* returned true for that id its status is not running again and it has      *)
(* emitted neither an artifact nor a completion event.                       *)
C8_NothingPastUnresolvedDecision ==
  \A r \in Runners :
    LET rec == R[r]
        h == rec.hist
        dec == {i \in 1..Len(h) : h[i].event.type = "decision"} IN
      /\ Cardinality(dec) <= 1
      /\ \A i \in dec :
           /\ h[i].event.tag = "tool_approval"
           /\ h[i].event.ref # 0
           /\ ~rec.killed /\ rec.resolved # h[i].event.ref
                => rec.status = "waiting_on_human"
           /\ rec.resolved # h[i].event.ref =>
                /\ rec.status # "running"
                /\ \A j \in 1..Len(h) : h[j].event.type \notin {"artifact", "completion"}

C8_Witness ==
  \E r \in Runners :
    /\ R[r].status = "waiting_on_human"
    /\ resp.op = "resolve" /\ resp.code = 404
    /\ cur = r

(* a decision with this id was emitted, is not resolved, and the run was     *)
(* neither killed nor paused                                                 *)
DecisionPending(rec, id) ==
  /\ \E i \in 1..Len(rec.hist) :
       rec.hist[i].event.type = "decision" /\ rec.hist[i].event.ref = id
  /\ rec.resolved # id
  /\ ~rec.killed

(* C9: resolve_decision(id) returns true exactly when a decision with that   *)
(* id is pending; when it returns false nothing changes.                     *)
C9_ResolveExactlyWhenPending ==
  [][(resp'.op = "resolve" /\ cur # 0) =>
       /\ resp'.ok = DecisionPending(R[cur], resp'.ids[1])
       /\ resp'.ok = (resp'.code = 200)
       /\ ~resp'.ok => UNCHANGED <<cur, nrun, R, event_buffer, sent, H, nstop>>]_vars

C9_Witness ==
  /\ resp.op = "resolve" /\ resp.ok
  /\ cur # 0
  /\ R[cur].fut = "result"
  /\ R[cur].task = "wait"

(* C10: once kill() or pause() was called on a scripted run, every envelope  *)
(* added to the run is a killed or paused lifecycle event; when no kill() or *)
(* pause() on the run is in progress or begins, no envelope is added at all; *)
(* and a resolve request for the run's decision is refused.                  *)
C10_NoScriptEventAfterStop ==
  [][\A r \in Runners :
       (mock /\ R[r].killed) =>
         /\ Len(R'[r].hist) >= Len(R[r].hist)
         /\ \A i \in (Len(R[r].hist) + 1)..Len(R'[r].hist) : IsFinal(R'[r].hist[i])
         /\ ((\A h \in Stops : H[h].r = r => H[h].pc = "done") /\ nstop' = nstop)
              => R'[r].hist = R[r].hist
         /\ (cur = r /\ resp'.op = "resolve") => ~resp'.ok]_vars

C10_Witness ==
  \E r \in Runners :
    /\ mock /\ cur = r
    /\ R[r].fut = "cancelled"
    /\ IsFinal(R[r].hist[Len(R[r].hist)])
    /\ \A h \in Stops : H[h].r = r => H[h].pc = "done"
    /\ resp.op = "resolve" /\ resp.ids = <<DecisionId(r)>> /\ ~resp.ok

(* the events of a scripted run that is resolved and never stopped *)
FullScript(r) ==
  << Ev("lifecycle", "started", 0),
     Ev("status", "Starting task...", 0),
     Ev("tool_call", "requested", r),
     Ev("tool_call", "running", r),
     Ev("tool_call", "completed", r),
     Ev("decision", "tool_approval", DecisionId(r)),
     Ev("artifact", "report.md", 0),
     Ev("completion", "success", 0) >>

(* C11: a scripted run that is never killed or paused produces, in order and *)
(* with sequence numbers 1, 2, ..., the events started, status, tool call    *)
(* requested, running, completed (one tool-call id), decision, artifact,     *)
(* completion(success), each once; when the completion is out the status is  *)
(* completed and is_running is false.                                        *)
C11_FullScriptInOrder ==
  \A r \in Runners :
    (mock /\ R[r].status # "none" /\ ~R[r].killed) =>
      LET h == R[r].hist IN
        /\ Len(h) <= Len(FullScript(r))
        /\ \A i \in 1..Len(h) :
             h[i].event = FullScript(r)[i] /\ h[i].sourceSequence = i
        /\ Len(h) = Len(FullScript(r)) <=>
             (R[r].status = "completed" /\ ~is_running(R[r]))
        /\ R[r].status \in {"running", "waiting_on_human", "completed"}

C11_Witness ==
  \E r \in Runners :
    /\ mock /\ ~R[r].killed
    /\ R[r].resolved = DecisionId(r)
    /\ Len(R[r].hist) = 8
    /\ R[r].task = "done"

NotFinal(e) == ~IsFinal(e)

CountType(h, type) == Cardinality({i \in 1..Len(h) : h[i].event.type = type})

(* C12: when the background task of a process-backed run has dealt with the  *)
(* exit of its subprocess, is_running is false and the events of the task    *)
(* end, on exit code 0, with the run's only completion event (success) and   *)
(* status completed; on another exit code, with the run's only error event   *)
(* (high) followed by its only crashed event and status error.  Whatever is  *)
(* added later is the killed or paused event of a stop.                      *)
C12_ExitReported ==
  \A r \in Runners :
    (~mock /\ R[r].task = "done" /\ R[r].proc = "exited") =>
      LET s == SelectSeq(R[r].hist, NotFinal)
          n == Len(s)
      IN /\ ~is_running(R[r])
         /\ IF R[r].rc = 0
              THEN /\ n >= 2
                   /\ IsEv(s[n], "completion", "success")
                   /\ CountType(s, "completion") = 1
                   /\ CountType(s, "error") = 0
                   /\ Count(s, "lifecycle", "crashed") = 0
                   /\ s = R[r].hist => R[r].status = "completed"
              ELSE /\ n >= 3
                   /\ IsEv(s[n - 1], "error", "high")
                   /\ IsEv(s[n], "lifecycle", "crashed")
                   /\ CountType(s, "error") = 1
                   /\ Count(s, "lifecycle", "crashed") = 1
                   /\ CountType(s, "completion") = 0
                   /\ s = R[r].hist => R[r].status = "error"

C12_Witness ==
  \E r \in Runners :
    /\ ~mock /\ R[r].task = "done" /\ R[r].proc = "exited"
    /\ R[r].rc = 1 /\ ~R[r].killed
    /\ Len(R[r].hist) >= 4

(* C13: when the subprocess could not be launched, the events of the task    *)
(* are one error event (critical) followed by one completion(abandoned), no  *)
(* started event; is_running is false and the status is error.               *)
C13_LaunchFailureReported ==
  \A r \in Runners :
    (~mock /\ R[r].proc = "none" /\ R[r].task \in {"done", "failed"}) =>
      LET s == SelectSeq(R[r].hist, NotFinal) IN
        /\ Len(s) = 2
        /\ IsEv(s[1], "error", "critical")
        /\ IsEv(s[2], "completion", "abandoned")
        /\ ~is_running(R[r])
        /\ s = R[r].hist => R[r].status = "error"

(* C14: a process-backed runner whose background task has stopped is not     *)
(* left with status running and is_running true.                             *)
C14_StoppedTaskEndsRun ==
  \A r \in Runners :
    (~mock /\ R[r].task \in {"done", "cancelled", "failed"}) =>
      ~(R[r].status = "running" /\ is_running(R[r]))

(* the last envelope of a run *)
LastEv(rec) == rec.hist[Len(rec.hist)]

(* C15: a kill reports a clean shutdown exactly when it was asked with grace *)
(* and its wait for the exit did not time out; the wait times out at most    *)
(* once, and only in a graceful kill of a process-backed runner; the killed  *)
(* event says graceful exactly when the shutdown is reported clean.          *)
C15_CleanShutdownReport ==
  (resp.op = "kill" /\ resp.code = 200) =>
    LET q == resp.req
        e == LastEv(R[q.r])
    IN /\ resp.ok = (q.grace /\ q.esc = 0)
       /\ q.esc <= 1
       /\ q.esc > 0 => (q.grace /\ ~mock)
       /\ IsEv(e, "lifecycle", "killed")
       /\ (e.event.ref = "graceful") = resp.ok
       /\ e.event.ref \in {"graceful", "force"}

C15_Witness ==
  /\ resp.op = "kill" /\ resp.code = 200
  /\ resp.req.grace /\ resp.req.esc = 1
  /\ ~resp.ok
  /\ LastEv(R[resp.req.r]).event.ref = "force"

(* no /kill or /pause handler on runner r is between its request and its    *)
(* response                                                                  *)
NoStopInProgress(r) == \A h \in Stops : H[h].r = r => H[h].pc = "done"

C17_CheckpointReadOnly ==
  [][cur # 0 =>
       /\ \A did \in {0} \cup ReqIds :
            LET c == get_checkpoint(R[cur], did) IN
              /\ c.op = "checkpoint"
              /\ c.ids = IF did # 0 THEN <<did>> ELSE <<>>
       /\ resp'.op = "checkpoint" =>
            /\ resp'.code = 200
            /\ \E did \in {0} \cup ReqIds : resp' = get_checkpoint(R[cur], did)
            /\ UNCHANGED <<cur, nrun, R, event_buffer, sent, H, nstop>>]_vars

C17_Witness ==
  /\ resp.op = "checkpoint" /\ resp.code = 200
  /\ resp.ids = <<NoSuchId>>
  /\ R[cur].status = "waiting_on_human"
  /\ R[cur].fut = "pending"

(* C18: the last-sequence of a checkpoint is the number of envelopes the run *)
(* has produced; for pause it is the sequence number of the paused event,    *)
(* the greatest of the run.                                                  *)
C18_CheckpointLastSequence ==
  /\ (resp.op = "checkpoint" /\ resp.code = 200) =>
        resp.last = Len(R[cur].hist)
  /\ (resp.op = "pause" /\ resp.code = 200) =>
        LET rec == R[resp.req.r] IN
          /\ resp.last = Len(rec.hist)
          /\ IsEv(LastEv(rec), "lifecycle", "paused")
          /\ LastEv(rec).sourceSequence = resp.last
          /\ \A i \in 1..Len(rec.hist) : rec.hist[i].sourceSequence <= resp.last

C18_Witness ==
  /\ resp.op = "pause" /\ resp.code = 200
  /\ resp.last >= 3
  /\ LastEv(R[resp.req.r]).sourceSequence = resp.last

C20_CodexResolveNoOp ==
  [][(~mock /\ cur # 0 /\ resp'.op = "resolve") =>
       /\ ~resp'.ok
       /\ resp'.code = 404
       /\ UNCHANGED <<cur, nrun, R, event_buffer, sent, H, nstop>>]_vars

C20_Witness ==
  /\ ~mock /\ cur # 0
  /\ resp.op = "resolve" /\ ~resp.ok
  /\ R[cur].proc = "alive"
  /\ R[cur].status = "running"

(* C21: on every channel the envelopes of a run are sent in strictly         *)
(* increasing sequence-number order. A connection sends what it holds and    *)
(* then holds what it pops next, so every two envelopes it sends one after   *)
(* the other are, in some state, the one it sent last and the one it holds.  *)
C21_ChannelSendsInSequenceOrder ==
  \A c \in Channels :
    (sent[c].last # NoEnvelope /\ sent[c].hold # NoEnvelope
       /\ sent[c].last[1].runId = sent[c].hold[1].runId)
      => sent[c].last[1].sourceSequence < sent[c].hold[1].sourceSequence

(* a channel is sending the killed event the /kill handler drained, after an *)
(* earlier envelope of its own, while another channel sent one in between    *)
C21_Witness ==
  \E c, d \in Channels :
    /\ c # d
    /\ sent[c].last # NoEnvelope /\ sent[c].hold # NoEnvelope
    /\ sent[d].last # NoEnvelope
    /\ IsEv(sent[c].hold[1], "lifecycle", "killed")
    /\ resp.op = "kill"
    /\ sent[c].last[1].sourceSequence < sent[d].last[1].sourceSequence
    /\ sent[d].last[1].sourceSequence < sent[c].hold[1].sourceSequence

(* the envelope as the run's factory returned it *)
Produced(e) == R[e.runId].hist[e.sourceSequence]

(* C26: what a channel sent is the envelope as it was produced, except for   *)
(* the uri of an artifact whose upload the sink stored: a failed upload, an  *)
(* answer without a uri and a connection without an endpoint leave the whole *)
(* envelope as it was; a stored upload changes the artifact's uri and        *)
(* nothing else; an envelope that is no artifact is never altered.           *)
C26_OnlyStoredArtifactUriChanges ==
  \A c \in Channels :
    sent[c].last # NoEnvelope =>
      LET e == sent[c].last[1]
          o == Produced(e)
      IN /\ e.sourceEventId = o.sourceEventId
         /\ e.sourceSequence = o.sourceSequence
         /\ e.runId = o.runId
         /\ [e EXCEPT !.event.uri = o.event.uri] = o
         /\ o.event.type # "artifact" => e = o
         /\ (o.event.type = "artifact" /\ sent[c].sink # "stored") => e = o
         /\ (o.event.type = "artifact" /\ sent[c].sink = "stored")
              => e.event.uri = BackendUri

(* one channel sent the artifact with the uri the sink returned, another     *)
(* channel sent an envelope that is no artifact                              *)
C26_Witness ==
  \E c, d \in Channels :
    /\ sent[c].last # NoEnvelope
    /\ sent[c].last[1].event.type = "artifact"
    /\ sent[c].sink = "stored"
    /\ sent[c].last[1].event.uri # Produced(sent[c].last[1]).event.uri
    /\ sent[d].last # NoEnvelope
    /\ sent[d].last[1].event.type # "artifact"

(* ---- the mapper ---- *)
IsMapCall == call.fn = "map_event"

IsToolCompletion == IsMapCall /\ IsToolNote(call.data) /\ call.data.type = "item.completed"

OpenKeys(m) == {k \in ItemKeys : m.open_tool_calls[k] # NoEntry}

(* C22: the completion of a tool item whose id has a start that no           *)
(* completion followed carries the tool-call id of the "requested" event     *)
(* returned for that start and a duration, whatever was mapped for other ids *)
(* in between; a completion whose id has no such start carries a tool-call   *)
(* id no earlier event carried and no duration.                              *)
C22_CompletionCarriesRequestedId ==
  IsToolCompletion =>
    /\ ~call.raised
    /\ Len(call.events) >= 1
    /\ call.events[1].type = "tool_call"
    /\ call.events[1].phase \in {"completed", "failed"}
    /\ IF call.requested[call.data.id] # <<>>
         THEN /\ call.events[1].toolCallId = call.requested[call.data.id][1]
              /\ call.events[1].durationMs # NoDuration
         ELSE /\ call.events[1].toolCallId \notin call.issued
              /\ call.events[1].durationMs = NoDuration

(* a completion matched with its start although another item was started in *)
(* between                                                                   *)
C22_Witness ==
  /\ IsToolCompletion
  /\ call.requested[call.data.id] # <<>>
  /\ call.events[1].toolCallId = call.requested[call.data.id][1]
  /\ \E j \in ItemIds :
       /\ j # call.data.id
       /\ call.before.open_tool_calls[j] # NoEntry
       /\ call.before.open_tool_calls[j][1].start_time
            > call.before.open_tool_calls[call.data.id][1].start_time

(* the notification is of a type, or of an item type, the mapper does not    *)
(* know                                                                      *)
IsUnrecognized(data) ==
  \/ data.type \notin {"thread.started", "turn.started", "turn.completed",
                       "turn.failed", "item.started", "item.completed"}
  \/ /\ data.type \in ItemEvents
     /\ data.item # "scalar"
     /\ data.itype \notin ToolItemTypes \cup {"reasoning", "agent_message", "todo_list"}

(* C23: map_event returns a list for every notification and does not raise;  *)
(* a notification of an unrecognized type returns the empty list and leaves  *)
(* the session id, the turn counter and the correlation state as they were.  *)
C23_MapperNeverRaises ==
  IsMapCall =>
    /\ ~call.raised
    /\ IsUnrecognized(call.data) =>
         /\ call.events = <<>>
         /\ mapper.session_id = call.before.session_id
         /\ mapper.turn_count = call.before.turn_count
         /\ mapper.open_tool_calls = call.before.open_tool_calls

IsFileChangeCompletion ==
  IsToolCompletion /\ call.data.itype = "file_change"

(* the artifact event e describes the file at path fp for the workstream the *)
(* mapper was constructed with                                               *)
IsArtifactOf(e, fp) ==
  /\ e.type = "artifact"
  /\ e.name = [fp EXCEPT !.dir = ""]
  /\ e.kind = infer_artifact_kind(e.name)
  /\ e.workstream = call.before.workstream
  /\ e.status = "draft"
  /\ e.uri = fp

IsEditCompleted(e) ==
  e.type = "tool_call" /\ e.toolName = "Edit" /\ e.phase = "completed"

(* C24 as stated: every file_change completion returns two events, the Edit  *)
(* completion and the artifact of the notification's path.                   *)
C24_FileChangeAlwaysTwoEvents ==
  IsFileChangeCompletion =>
    /\ Len(call.events) = 2
    /\ IsEditCompleted(call.events[1])
    /\ IsArtifactOf(call.events[2], call.data.file_path)

(* the path the mapper knows at a file_change completion: the notification's *)
(* own, else the one recorded at the matching start                          *)
KnownPath ==
  IF call.data.file_path # NoPath THEN call.data.file_path
  ELSE IF call.before.open_tool_calls[call.data.id] # NoEntry
         THEN call.before.open_tool_calls[call.data.id][1].file_path
         ELSE NoPath

(* C24 amended: a file_change completion returns the Edit completion and,    *)
(* when a path is known, after it the artifact of that path; when no path is *)
(* known it returns the Edit completion alone.                               *)
C24_FileChangeArtifactOfKnownPath ==
  IsFileChangeCompletion =>
    /\ ~call.raised
    /\ IsEditCompleted(call.events[1])
    /\ IF KnownPath # NoPath
         THEN Len(call.events) = 2 /\ IsArtifactOf(call.events[2], KnownPath)
         ELSE Len(call.events) = 1

(* a completion without a path returns the artifact of the path its start    *)
(* carried                                                                   *)
C24_Witness ==
  /\ IsFileChangeCompletion
  /\ call.data.file_path = NoPath
  /\ KnownPath # NoPath
  /\ Len(call.events) = 2
  /\ call.events[2].kind = "test"

IsAgentMessageText ==
  /\ IsMapCall
  /\ call.data.type = "item.completed"
  /\ call.data.item = "object"
  /\ call.data.itype = "agent_message"
  /\ call.data.text.kind \in {"absent", "str", "list"}

(* the number of characters of a string built by the mapper *)
StrLen(x) == x.take + (IF x.suffix = "" THEN 0 ELSE 3)

(* C25 as stated: the status message is the text when it has at most 500     *)
(* characters and otherwise its first 500 characters with nothing appended.  *)
C25_StraightTruncation ==
  IsAgentMessageText =>
    /\ Len(call.events) = 1
    /\ call.events[1].type = "status"
    /\ call.events[1].message.suffix = ""
    /\ call.events[1].message.take =
         IF call.data.text.len <= 500 THEN call.data.text.len ELSE 500

(* C25 amended: the status message is the text when it has at most 500       *)
(* characters and otherwise its first 497 characters followed by "...", 500  *)
(* characters in all.                                                        *)
C25_TruncationWithMarker ==
  IsAgentMessageText =>
    /\ Len(call.events) = 1
    /\ call.events[1].type = "status"
    /\ IF call.data.text.len <= 500
         THEN /\ call.events[1].message.take = call.data.text.len
              /\ call.events[1].message.suffix = ""
         ELSE /\ call.events[1].message.take = 497
              /\ call.events[1].message.suffix = "..."
              /\ StrLen(call.events[1].message) = 500

(* a text of 501 characters has been mapped *)
C25_Witness ==
  /\ IsAgentMessageText
  /\ call.data.text.kind = "str"
  /\ call.data.text.len = 501
  /\ call.events[1].message.suffix = "..."

(* C29: the keys of the correlation state are the ids of the tool items      *)
(* started and not completed since; a notification that is not of a tool     *)
(* item leaves the state as it was; a completion leaves no entry for its id, *)
(* and one that found no entry is treated as unmatched.                      *)
C29_OpenToolCallsAreOpenItems ==
  /\ OpenKeys(mapper) = {k \in ItemKeys : RequestedAfter(call)[k] # <<>>}
  /\ IsMapCall =>
       /\ ~IsToolNote(call.data)
            => mapper.open_tool_calls = call.before.open_tool_calls
       /\ IsToolNote(call.data)
            => \A k \in ItemKeys \ {call.data.id} :
                 mapper.open_tool_calls[k] = call.before.open_tool_calls[k]
       /\ IsToolCompletion =>
            /\ mapper.open_tool_calls[call.data.id] = NoEntry
            /\ call.before.open_tool_calls[call.data.id] = NoEntry
                 => /\ call.events[1].toolCallId \notin call.issued
                    /\ call.events[1].durationMs = NoDuration

(* a completion has removed the entry of its item while another item stays   *)
(* open                                                                      *)
C29_Witness ==
  /\ IsToolCompletion
  /\ call.before.open_tool_calls[call.data.id] # NoEntry
  /\ mapper.open_tool_calls[call.data.id] = NoEntry
  /\ OpenKeys(mapper) # {}

(* ---- the prompt ---- *)
(* C27: the rendered prompt has at most 8000 characters: an assembled text   *)
(* of at most 8000 characters is returned as it is, a longer one as its      *)
(* first 7997 characters followed by "...", 8000 characters in all.          *)
C27_PromptCappedAt8000 ==
  call.fn = "brief_to_prompt" =>
    /\ StrLen(call.prompt) <= 8000
    /\ IF call.assembled.take <= 8000
         THEN call.prompt = call.assembled
         ELSE /\ call.prompt.of = "assembled"
              /\ call.prompt.take = 7997
              /\ call.prompt.suffix = "..."
              /\ StrLen(call.prompt) = 8000

(* an assembled text of 8001 characters has been cut *)
C27_Witness ==
  /\ call.fn = "brief_to_prompt"
  /\ call.assembled.take = 8001
  /\ call.prompt.suffix = "..."

(* ---- continuing a run ---- *)
(* C28: a /pause response carries the session id its runner holds; a         *)
(* /resume step constructs, in a slot no runner had, a runner that is the    *)
(* current one, has status running and a factory that has numbered nothing;  *)
(* a process-backed runner so constructed holds the session id that the      *)
(* runner of the checkpoint holds, which is the one its mapper learned from  *)
(* thread.started if it learned one.                                         *)
C28_ResumeStartsFreshWithSession ==
  [][/\ (resp'.op = "pause" /\ resp'.code = 200)
          => resp'.sid = R'[resp'.req.r].sid
     /\ (resp'.op = "resume" /\ resp'.code = 200) =>
          LET n == cur'
              c == resp'.req.r
          IN /\ n = nrun + 1
             /\ R[n] = NoRunner
             /\ R'[n].status = "running"
             /\ R'[n].seq = 0
             /\ R'[n].hist = <<>>
             /\ resp'.sid = R'[n].sid
             /\ ~mock =>
                  /\ R'[n].sid = R[c].sid
                  /\ R[c].msid # <<>> => R'[n].sid = R[c].msid]_vars

(* a process-backed run that learned its session id was paused and has been  *)
(* continued                                                                 *)
C28_Witness ==
  /\ ~mock
  /\ resp.op = "resume"
  /\ cur = 2
  /\ R[1].status = "paused"
  /\ R[1].msid # <<>>
  /\ R[2].sid = R[1].msid
  /\ R[2].status = "running"

(* ---- the shared buffer ---- *)
(* the envelopes a step moved from the current runner's buffer *)
Transferred == SubSeq(R'[cur].taken, Len(R[cur].taken) + 1, Len(R'[cur].taken))

(* the newest 1000 of s, in their order, or s when it has no more *)
Newest1000(s) == IF Len(s) > 1000 THEN SubSeq(s, Len(s) - 999, Len(s)) ELSE s

(* C30: the shared buffer holds at most 1000 envelopes in every state; a     *)
(* step that moves envelopes from the runner leaves in it the newest 1000 of *)
(* what it held followed by what was moved, in that order (all of them when  *)
(* they are no more than 1000), less the one a connection pops in the same   *)
(* step.                                                                     *)
C30_SharedBufferKeepsNewest1000 ==
  /\ [](Len(event_buffer) <= 1000)
  /\ [][(cur # 0 /\ cur' = cur /\ R'[cur].taken # R[cur].taken) =>
          LET kept == Newest1000(event_buffer \o Transferred) IN
          \/ event_buffer' = kept /\ sent' = sent
          \/ \E c \in Channels :
               /\ sent[c].hold = NoEnvelope
               /\ sent'[c].hold = <<Head(kept)>>
               /\ event_buffer' = Tail(kept)]_vars

(* a transfer has discarded envelopes: the buffer is full and its oldest     *)
(* envelope is not the one that followed the envelope channel 1 popped       *)
C30_Witness ==
  /\ cur = 1
  /\ Len(event_buffer) = 1000
  /\ sent[1].hold # NoEnvelope
  /\ sent[1].hold[1].sourceSequence = 1
  /\ event_buffer[1].sourceSequence > 2
  /\ event_buffer[1000] = R[1].taken[Len(R[1].taken)]

(* the run is waiting_on_human and its decision event is out *)
WaitingOnDecision(r) ==
  /\ R[r].status = "waiting_on_human"
  /\ \E i \in 1..Len(R[r].hist) : R[r].hist[i].event.type = "decision"

(* the run's completion event is out, its status is completed and is_running *)
(* is false                                                                  *)
RunCompleted(r) ==
  /\ \E i \in 1..Len(R[r].hist) : IsEv(R[r].hist[i], "completion", "success")
  /\ R[r].status = "completed"
  /\ ~is_running(R[r])

(* C31: a started scripted run that is never killed or paused eventually is  *)
(* waiting_on_human with its decision event emitted; once that decision is   *)
(* resolved the run, unless killed or paused, eventually has emitted its     *)
(* completion event and is completed with is_running false; while it is      *)
(* neither resolved nor killed nor paused it stays waiting_on_human.         *)
C31_ScriptedRunProgress ==
  /\ \A r \in Runners :
       (R[r].task = "init") ~> (R[r].killed \/ WaitingOnDecision(r))
  /\ \A r \in Runners :
       (R[r].fut = "result") ~> (R[r].killed \/ RunCompleted(r))
  /\ [][\A r \in Runners :
          (WaitingOnDecision(r) /\ R'[r].resolved = 0 /\ ~R'[r].killed)
            => (R'[r].status = "waiting_on_human" /\ R'[r].hist = R[r].hist)]_vars

(* a run was resolved while it waited and has gone on to its end *)
C31_Witness ==
  \E r \in Runners :
    /\ RunCompleted(r)
    /\ R[r].resolved = DecisionId(r)
    /\ ~R[r].killed
    /\ R[r].taken = R[r].hist

(* C32: in every state between two steps, for every runner of either         *)
(* variant: a status of completed, error or paused comes with is_running     *)
(* false, and is_running true comes with a status of running or              *)
(* waiting_on_human.                                                         *)
C32_StatusAgreesWithIsRunning ==
  \A r \in Runners :
    R[r].status # "none" =>
      /\ R[r].status \in {"completed", "error", "paused"} => ~is_running(R[r])
      /\ is_running(R[r]) => R[r].status \in {"running", "waiting_on_human"}

(* a process-backed run has completed by itself: its subprocess exited with  *)
(* code 0 and nobody stopped it                                              *)
C32_Witness ==
  \E r \in Runners :
    /\ ~mock
    /\ R[r].status = "completed"
    /\ R[r].rc = 0 /\ R[r].proc = "exited"
    /\ ~R[r].killed
    /\ ~is_running(R[r])

(* C33: when a /kill or /pause request is answered, the killed or paused     *)
(* envelope of the run it stopped has been moved to the shared buffer: it is *)
(* the last envelope the drains took from that runner, and nothing is left   *)
(* in the runner's own buffer.                                               *)
C33_FinalEventReachesSharedBuffer ==
  (resp.op \in {"kill", "pause"} /\ resp.code = 200) =>
    LET rec == R[resp.req.r] IN
      /\ IsFinal(LastEv(rec))
      /\ rec.buf = <<>>
      /\ rec.taken = rec.hist

(* C34: a process-backed run on which kill() or pause() found the subprocess *)
(* alive (and signalled it) has, in every later state, no crashed lifecycle  *)
(* event and no "exited with code" error event among its events, and its     *)
(* status is not error.                                                      *)
C34_StoppedRunNeverReportsCrash ==
  \A r \in Runners :
    (~mock /\ R[r].killed /\ R[r].sig # "none") =>
      /\ Count(R[r].hist, "lifecycle", "crashed") = 0
      /\ Count(R[r].hist, "error", "high") = 0
      /\ R[r].status # "error"

(* C35: below the cap, an envelope in the shared buffer is after every step  *)
(* still in the buffer or held by the connection that popped it, and an      *)
(* envelope a connection held is, once the connection holds it no more, the  *)
(* envelope that connection sent: no step drops an envelope undelivered.     *)
C35_NoEnvelopeLeavesUndelivered ==
  [][/\ \A i \in 1..Len(event_buffer) :
          \/ \E j \in 1..Len(event_buffer') : event_buffer'[j] = event_buffer[i]
          \/ \E c \in Channels : sent'[c].hold = <<event_buffer[i]>>
     /\ \A c \in Channels :
          (sent[c].hold # NoEnvelope /\ sent'[c].hold # sent[c].hold) =>
            /\ sent'[c].last # NoEnvelope
            /\ sent'[c].last[1].sourceEventId = sent[c].hold[1].sourceEventId]_vars

(* C36: a /spawn or /resume that replaces a runner which is not running      *)
(* finds nothing in that runner's own buffer: all the old run produced has   *)
(* been moved to the shared buffer before.                                   *)
C36_ReplacedRunnerLeavesNothing ==
  [][(cur # 0 /\ cur' # cur /\ (IF cur = 0 THEN FALSE ELSE ~is_running(R[cur]))) =>
       /\ R[cur].buf = <<>>
       /\ R[cur].taken = R[cur].hist]_vars

(* C37: on one scripted runner a resolve_decision call returns true only     *)
(* when none returned true before (the future was pending and unresolved),   *)
(* so at most one call does; and the run's events hold at most one artifact  *)
(* and at most one completion event.                                         *)
C37_DecisionResolvedAtMostOnce ==
  /\ [](\A r \in Runners :
          mock => /\ CountType(R[r].hist, "artifact") <= 1
                  /\ CountType(R[r].hist, "completion") <= 1)
  /\ [][(mock /\ cur # 0 /\ resp'.op = "resolve" /\ resp'.ok) =>
          (IF cur = 0 THEN FALSE
           ELSE /\ R[cur].resolved = 0
                /\ R[cur].fut = "pending"
                /\ R'[cur].resolved # 0)]_vars

(* a second call with the decision's id, made after the first returned true  *)
(* and before the script went on, is refused                                 *)
C37_Witness ==
  /\ mock /\ cur # 0
  /\ resp.op = "resolve" /\ ~resp.ok
  /\ resp.ids = <<DecisionId(cur)>>
  /\ R[cur].resolved = DecisionId(cur)
  /\ R[cur].fut = "result"
  /\ R[cur].task = "wait"

(* the run has emitted its decision event *)
DecisionEmitted(rec) ==
  \E i \in 1..Len(rec.hist) : rec.hist[i].event.type = "decision"

(* C38: the checkpoint pause() returns on a scripted runner lists a decision *)
(* id only if the run emitted that decision and no resolve_decision call     *)
(* returned true for it: after a successful resolve the list is empty, also  *)
(* when the script has not yet gone on from the wait; for a run paused while *)
(* it waits unresolved the list is exactly the decision's id.                *)
C38_PauseListsOnlyUnresolvedDecision ==
  (mock /\ resp.op = "pause" /\ resp.code = 200) =>
    LET r == resp.req.r
        rec == R[r]
    IN /\ resp.ids # <<>> =>
            /\ resp.ids = <<DecisionId(r)>>
            /\ DecisionEmitted(rec)
            /\ rec.resolved = 0
       /\ rec.resolved # 0 => resp.ids = <<>>
       /\ (resp.req.live /\ DecisionEmitted(rec) /\ rec.resolved = 0) =>
            resp.ids = <<DecisionId(r)>>

(* the positions of the decision events among a run's events *)
DecisionEvents(rec) ==
  {i \in 1..Len(rec.hist) : rec.hist[i].event.type = "decision"}

(* C39: a scripted runner whose status is waiting_on_human has its pending   *)
(* decision id set, and its events hold exactly one decision event, a tool   *)
(* approval carrying that id; the script has not gone past the wait: no      *)
(* artifact or completion event is out.                                      *)
C39_WaitingMeansDecisionOut ==
  \A r \in Runners :
    (mock /\ R[r].status = "waiting_on_human") =>
      /\ R[r].pdid # 0
      /\ R[r].pdid = DecisionId(r)
      /\ Cardinality(DecisionEvents(R[r])) = 1
      /\ \A i \in DecisionEvents(R[r]) :
           /\ R[r].hist[i].event.tag = "tool_approval"
           /\ R[r].hist[i].event.ref = R[r].pdid
      /\ R[r].fut # "none"
      /\ R[r].task \in {"wait", "done"}
      /\ CountType(R[r].hist, "artifact") = 0
      /\ CountType(R[r].hist, "completion") = 0

(* a waiting run whose handle was replaced by a brief amendment *)
C39_Witness ==
  /\ mock /\ cur # 0
  /\ R[cur].status = "waiting_on_human"
  /\ R[cur].fut = "pending"
  /\ R[cur].pbc = 1
  /\ resp.op = "update-brief"

(* C40: an accepted /update-brief leaves the handle's status and session id  *)
(* as they were and records the changes on it; a handle that carries         *)
(* recorded changes carries them after every later step of its run.          *)
C40_BriefChangesStayRecorded ==
  [][/\ (cur # 0 /\ resp'.op = "update-brief" /\ resp'.code = 200) =>
          (IF cur = 0 THEN FALSE
           ELSE /\ R'[cur].pbc = 1
                /\ R'[cur].status = R[cur].status
                /\ R'[cur].sid = R[cur].sid)
     /\ \A r \in Runners : R[r].pbc = 1 => R'[r].pbc = 1]_vars

====
